---- MODULE Spec2Model ----
(***************************************************************************)
(* ToolManager (toolManager.js): the catalog manager of ToolCreationTool.  *)
(*                                                                         *)
(* Every asynchronous call of the manager is a frame on the call stack of  *)
(* the task that issued it.  A frame is [fn, pc]: the method and the       *)
(* source line it is at.  The top frame of a task is the one running (or   *)
(* awaiting a backend); every frame below it awaits the frame above it.    *)
(*                                                                         *)
(* _getOrCreateCollection (line 73) calls ensureToolCreationTool, whose    *)
(* first statement (line 79) calls _getOrCreateCollection.  Neither call   *)
(* is guarded, so once the handle is cached the two methods call each      *)
(* other until the engine's call stack is exhausted; the engine then       *)
(* raises a RangeError, which rejects the innermost call and travels up    *)
(* through every pending await.  The statements that follow lines 73, 79,  *)
(* 106, 129, 144 and 282 run only after a normal return of the awaited     *)
(* call, and no behaviour has one.                                         *)
(***************************************************************************)
EXTENDS Naturals, Sequences, FiniteSets, TLC

\* ------------------------------------------------------------- bounds
\* Frames the engine's call stack holds before it raises a RangeError.
MaxStack == 4
\* Ids uuidv4 hands out before the model stops asking for more.
MaxUuid == 2
\* Largest maxResults a caller passes.
MaxN == 1

\* The tasks that may hold a call of the one manager.
Tasks == {1, 2}
\* The callers of Spec: one, which awaits each call before it issues the next.
Callers == {1}

\* ------------------------------------------------- constants of the code
TOOL_CREATION_TOOL_ID == "core_create_tool_001"
Undefined == "<undefined>"

NoParameters == [kind |-> "undefined", type |-> Undefined, properties |-> Undefined]
SchemaParameters == [kind |-> "object", type |-> "object", properties |-> "{...}"]

TOOL_CREATION_TOOL_DEF ==
    [id |-> TOOL_CREATION_TOOL_ID,
     name |-> "create_new_tool",
     description |-> "Creates a definition for a new tool",
     parameters |-> SchemaParameters,
     type |-> "core"]

\* No tool definition (a task that holds none).
NoDef ==
    [id |-> Undefined, name |-> Undefined, description |-> Undefined,
     parameters |-> NoParameters, type |-> Undefined]

\* ------------------------------------------------------ error messages
MsgNoEmbedder == "Cannot create collection without an embedding function. Ensure OPENAI_API_KEY is set."
MsgConnect == "Could not connect to or create ChromaDB collection."
MsgRangeError == "Maximum call stack size exceeded"
MsgNoLlmClient == "LLMClient is required for tool creation execution."
MsgLlmFailed == "request to the completion backend failed"
MsgEmpty == "LLM response was empty."
MsgNoJson == "LLM response did not contain the expected JSON format."
MsgParse == "Failed to parse JSON from LLM response"
MsgNullDeref == "Cannot read properties of null (reading 'name')"
MsgMissingFields == "Generated tool definition is missing required fields (name, description, parameters)."
MsgBadParameters == "Generated tool parameters are not a valid JSON schema object."

\* ------------------------------------------------------------- state
VARIABLES
    embedder,    \* the module's embedding function is set (OPENAI_API_KEY given)
    llmClient,   \* the manager was constructed with a completion client
    collection,  \* this.collection: 0 is null, k >= 1 the handle of the k-th connect
    catalog,     \* the backing collection: id -> [meta, doc] for the stored ids
    uuids,       \* ids uuidv4 has handed out so far
    stack,       \* per task, its frames, the outermost first
    exc,         \* per task, the message of the rejection travelling up, or ""
    call,        \* per task, the manager call it issued
    def,         \* per task, the tool definition object it passes to addTool
    raw,         \* per task, the completion response it received
    result,      \* per task, how its call completed
    before       \* per task, the catalog when its call was issued

vars == <<embedder, llmClient, collection, catalog, uuids, stack, exc, call, def,
          raw, result, before>>

\* ----------------------------------------------------- tool definitions
\* JavaScript's falsy test (!x) on the values a field takes here.
Falsy(v) == v \in {Undefined, ""}

\* The id uuidv4 returns on its k-th call.
Uuid(k) == "uuid-" \o ToString(k)

\* `${toolDefinition.name}: ${toolDefinition.description}` (line 111).
EmbeddingText(d) == d.name \o ": " \o d.description

\* The entry collection.upsert writes for definition d (lines 114-118).
Entry(d) == [id |-> d.id, meta |-> d, doc |-> EmbeddingText(d)]

StoredIds == {e.id : e \in catalog}

\* Definitions a caller hands to addTool, and JSON objects a completion may hold.
WeatherTool ==
    [id |-> Undefined, name |-> "get_current_weather",
     description |-> "Retrieves the current weather", parameters |-> SchemaParameters,
     type |-> Undefined]

StoredTool == [WeatherTool EXCEPT !.id = "tool-a", !.type = "llm_generated"]

\* A valid object may carry keys the prompt did not ask for: an id, a type.
ValidObjects ==
    {[WeatherTool EXCEPT !.id = i, !.type = ty] :
        i \in {Undefined, "tool-a", TOOL_CREATION_TOOL_ID}, ty \in {Undefined, "core"}}

InvalidObjects ==
    {[WeatherTool EXCEPT !.name = Undefined],
     [WeatherTool EXCEPT !.name = ""],
     [WeatherTool EXCEPT !.description = Undefined],
     [WeatherTool EXCEPT !.parameters = NoParameters],
     [WeatherTool EXCEPT !.parameters = [SchemaParameters EXCEPT !.kind = "string"]],
     [WeatherTool EXCEPT !.parameters = [SchemaParameters EXCEPT !.type = Undefined]],
     [WeatherTool EXCEPT !.parameters = [SchemaParameters EXCEPT !.properties = Undefined]]}

JsonObjects == ValidObjects \cup InvalidObjects

\* ------------------------------------------------ completion responses
\* A trimmed response is a sequence of tokens: "fence_json" is ```json, "fence" a
\* bare ```, "object" the text of one JSON object (val), "null" the JSON text null,
\* "broken" a {...} text that is not JSON, "text" any other prose.
Tok(k) == [tok |-> k, val |-> NoDef]
Obj(o) == [tok |-> "object", val |-> o]

Responses ==
    {<<>>, <<Tok("text")>>, <<Tok("fence_json"), Tok("fence")>>,
     <<Tok("fence_json"), Tok("broken"), Tok("fence")>>, <<Tok("broken")>>,
     <<Tok("fence_json"), Tok("null"), Tok("fence")>>,
     <<Tok("fence_json"), Tok("text"), Tok("fence")>>}
    \cup {<<Tok("fence_json"), Obj(o), Tok("fence")>> : o \in JsonObjects}
    \cup {<<Tok("text"), Tok("fence_json"), Obj(o), Tok("fence"), Tok("text")>> :
             o \in {WeatherTool}}
    \cup {<<Obj(o)>> : o \in JsonObjects}
    \cup {<<Tok("fence"), Obj(o), Tok("fence")>> : o \in {WeatherTool}}
    \cup {<<Obj(o), Tok("text")>> : o \in {WeatherTool}}

\* rawResponse.match(/```json\s*([\s\S]*?)\s*```/): the tokens between the first
\* ```json and the first ``` after it (```json starts with ``` too); <<>> when the
\* pattern does not match or captures nothing.
IsFence(x) == x.tok \in {"fence", "fence_json"}

Opener(r) ==
    LET S == {i \in 1..Len(r) : r[i].tok = "fence_json"
                                /\ \E j \in (i + 1)..Len(r) : IsFence(r[j])}
    IN IF S = {} THEN 0 ELSE CHOOSE i \in S : \A k \in S : i <= k

Closer(r, i) ==
    CHOOSE j \in (i + 1)..Len(r) :
        IsFence(r[j]) /\ \A k \in (i + 1)..(j - 1) : ~IsFence(r[k])

JsonMatch(r) ==
    LET i == Opener(r)
    IN IF i = 0 THEN <<>> ELSE SubSeq(r, i + 1, Closer(r, i) - 1)

\* rawResponse.startsWith('{') && rawResponse.endsWith('}') (line 257).
LooksLikeJson(r) ==
    /\ Len(r) > 0
    /\ r[1].tok \in {"object", "broken"}
    /\ r[Len(r)].tok \in {"object", "broken"}

\* Lines 253-262: the text handed to JSON.parse, or <<>> when none is found.
ExtractJson(r) ==
    IF JsonMatch(r) # <<>> THEN JsonMatch(r)
    ELSE IF LooksLikeJson(r) THEN r
    ELSE <<>>

\* JSON.parse succeeds on exactly one JSON value (line 267).
Parses(j) == Len(j) = 1 /\ j[1].tok \in {"object", "null"}

\* Validate without the test of parameters.properties.
ValidateNoProperties(o) ==
    IF Falsy(o.name) \/ Falsy(o.description) \/ o.parameters.kind = "undefined"
    THEN MsgMissingFields
    ELSE IF o.parameters.kind # "object" \/ Falsy(o.parameters.type)
         THEN MsgBadParameters
         ELSE ""

\* Lines 273-278: the message of the validation error, "" when the object passes.
Validate(o) ==
    IF Falsy(o.name) \/ Falsy(o.description) \/ o.parameters.kind = "undefined"
    THEN MsgMissingFields
    ELSE IF \/ o.parameters.kind # "object"
            \/ Falsy(o.parameters.type)
            \/ Falsy(o.parameters.properties)
         THEN MsgBadParameters
         ELSE ""

\* Lines 247-278 on response r: the message of the error thrown, or "" and the
\* parsed definition that goes on to addTool.
Synthesize(r) ==
    IF r = <<>> THEN [err |-> MsgEmpty, obj |-> NoDef]
    ELSE IF ExtractJson(r) = <<>> THEN [err |-> MsgNoJson, obj |-> NoDef]
    ELSE IF ~Parses(ExtractJson(r)) THEN [err |-> MsgParse, obj |-> NoDef]
    ELSE IF ExtractJson(r)[1].tok = "null" THEN [err |-> MsgNullDeref, obj |-> NoDef]
    ELSE [err |-> Validate(ExtractJson(r)[1].val), obj |-> ExtractJson(r)[1].val]

\* ------------------------------------------------------------ results
NoResult == [kind |-> "none", error |-> "", value |-> <<>>]
Thrown(msg) == [kind |-> "thrown", error |-> msg, value |-> <<>>]

\* The catch of executeToolCreation throwing the error on.
CreationFailureRethrown(msg) == Thrown(msg)

\* The catch of executeToolCreation returning a result with no message.
CreationFailureNoMessage(msg) == [kind |-> "returned", error |-> "", value |-> <<>>]

\* The catch of executeToolCreation (lines 287-291).
CreationFailure(msg) ==
    [kind |-> "returned", error |-> "Failed to create tool: " \o msg, value |-> <<>>]

NoCall == [op |-> "idle", context |-> "", maxResults |-> 0, id |-> Undefined]

Frame(f, p) == [fn |-> f, pc |-> p]
Top(t) == stack[t][Len(stack[t])]
Running(t, f, p) == stack[t] # <<>> /\ exc[t] = "" /\ Top(t) = Frame(f, p)
Idle(t) == call[t].op = "idle"
Finished(t) == result[t].kind # "none"

\* ------------------------------------------------------------- Init
\* The store outlives the manager: it may be empty, or hold entries written earlier.
InitialCatalogs ==
    {{}, {Entry(StoredTool)}, {Entry(TOOL_CREATION_TOOL_DEF)},
     {Entry(TOOL_CREATION_TOOL_DEF), Entry(StoredTool)}}

Init ==
    /\ embedder \in BOOLEAN
    /\ llmClient \in BOOLEAN
    /\ collection = 0
    /\ catalog \in InitialCatalogs
    /\ uuids = 0
    /\ stack = [t \in Tasks |-> <<>>]
    /\ exc = [t \in Tasks |-> ""]
    /\ call = [t \in Tasks |-> NoCall]
    /\ def = [t \in Tasks |-> NoDef]
    /\ raw = [t \in Tasks |-> <<>>]
    /\ result = [t \in Tasks |-> NoResult]
    /\ before = [t \in Tasks |-> {}]

\* ------------------------------------------------------- call machinery
\* The running frame of task t calls method f: the engine pushes f's frame at its
\* first line, or, with the call stack full, raises a RangeError in the caller.
\* The caller is an async function and none of the calls of lines 73, 79, 106, 129
\* and 144 is inside a try, so the error rejects the caller: its frame goes and the
\* rejection travels to the frame awaiting it.
Invoke(t, f, p) ==
    IF Len(stack[t]) < MaxStack
    THEN /\ stack' = [stack EXCEPT ![t] = Append(@, Frame(f, p))]
         /\ exc' = exc
    ELSE /\ stack' = [stack EXCEPT ![t] = SubSeq(@, 1, Len(@) - 1)]
         /\ exc' = [exc EXCEPT ![t] = MsgRangeError]

\* The running frame of task t moves to line p.
Goto(t, p) == [stack EXCEPT ![t] = [@ EXCEPT ![Len(stack[t])].pc = p]]

\* The running frame of task t throws msg outside any try of its own.
Throw(t, msg) ==
    /\ stack' = [stack EXCEPT ![t] = SubSeq(@, 1, Len(@) - 1)]
    /\ exc' = [exc EXCEPT ![t] = msg]

\* Task t, idle, issues call c.
Issue(t, c) ==
    /\ Idle(t)
    /\ call' = [call EXCEPT ![t] = c]
    /\ before' = [before EXCEPT ![t] = catalog]
    /\ result' = [result EXCEPT ![t] = NoResult]

\* --------------------------------------------------------- the callers
CallGetOrCreateCollection(t) ==
    /\ Issue(t, [NoCall EXCEPT !.op = "_getOrCreateCollection"])
    /\ stack' = [stack EXCEPT ![t] = <<Frame("_getOrCreateCollection", "l56")>>]
    /\ UNCHANGED <<embedder, llmClient, collection, catalog, uuids, exc, def, raw>>

CallEnsureToolCreationTool(t) ==
    /\ Issue(t, [NoCall EXCEPT !.op = "ensureToolCreationTool"])
    /\ stack' = [stack EXCEPT ![t] = <<Frame("ensureToolCreationTool", "l79")>>]
    /\ UNCHANGED <<embedder, llmClient, collection, catalog, uuids, exc, def, raw>>

\* addTool(d): without an id the call draws one from uuidv4.
CallAddTool(t, d) ==
    /\ d.id = Undefined => uuids < MaxUuid
    /\ Issue(t, [NoCall EXCEPT !.op = "addTool"])
    /\ stack' = [stack EXCEPT ![t] = <<Frame("addTool", "l99")>>]
    /\ def' = [def EXCEPT ![t] = d]
    /\ UNCHANGED <<embedder, llmClient, collection, catalog, uuids, exc, raw>>

CallGetTool(t, i) ==
    /\ Issue(t, [NoCall EXCEPT !.op = "getTool", !.id = i])
    /\ stack' = [stack EXCEPT ![t] = <<Frame("getTool", "l129")>>]
    /\ UNCHANGED <<embedder, llmClient, collection, catalog, uuids, exc, def, raw>>

CallGetAvailableTools(t, ctx, n) ==
    /\ Issue(t, [NoCall EXCEPT !.op = "getAvailableTools", !.context = ctx,
                               !.maxResults = n])
    /\ stack' = [stack EXCEPT ![t] = <<Frame("getAvailableTools", "l144")>>]
    /\ UNCHANGED <<embedder, llmClient, collection, catalog, uuids, exc, def, raw>>

CallExecuteToolCreation(t) ==
    /\ Issue(t, [NoCall EXCEPT !.op = "executeToolCreation"])
    /\ stack' = [stack EXCEPT ![t] = <<Frame("executeToolCreation", "l201")>>]
    /\ UNCHANGED <<embedder, llmClient, collection, catalog, uuids, exc, def, raw>>

\* ---------------------------------------------- _getOrCreateCollection
\* The method asking the backend for the collection whether or not a handle is
\* cached.
GetOrCreateCollection_Reconnect(t) ==
    /\ Running(t, "_getOrCreateCollection", "l56")
    /\ \/ /\ ~embedder
          /\ Throw(t, MsgNoEmbedder)
       \/ /\ embedder
          /\ stack' = Goto(t, "l61")
          /\ exc' = exc
    /\ UNCHANGED <<embedder, llmClient, collection, catalog, uuids, call, def, raw,
                   result, before>>

\* Lines 56-59: with no handle cached, throw without an embedder, else ask the
\* backend for the collection; with a handle cached go on to line 73.
GetOrCreateCollection_Check(t) ==
    /\ Running(t, "_getOrCreateCollection", "l56")
    /\ \/ /\ collection = 0 /\ ~embedder
          /\ Throw(t, MsgNoEmbedder)
       \/ /\ collection = 0 /\ embedder
          /\ stack' = Goto(t, "l61")
          /\ exc' = exc
       \/ /\ collection # 0
          /\ stack' = Goto(t, "l73")
          /\ exc' = exc
    /\ UNCHANGED <<embedder, llmClient, collection, catalog, uuids, call, def, raw,
                   result, before>>

\* The manager deleting the collection and creating it anew on connecting.
ConnectOkRecreated(t) ==
    /\ Running(t, "_getOrCreateCollection", "l61")
    /\ collection' = collection + 1
    /\ catalog' = {}
    /\ stack' = Goto(t, "l73")
    /\ UNCHANGED <<embedder, llmClient, uuids, exc, call, def, raw, result, before>>

\* Line 61: the backend returns a handle, which is assigned to this.collection.
ConnectOk(t) ==
    /\ Running(t, "_getOrCreateCollection", "l61")
    /\ collection' = collection + 1
    /\ stack' = Goto(t, "l73")
    /\ UNCHANGED <<embedder, llmClient, catalog, uuids, exc, call, def, raw, result,
                   before>>

\* Lines 67-70: the backend fails; the catch throws the connection error.
ConnectFail(t) ==
    /\ Running(t, "_getOrCreateCollection", "l61")
    /\ Throw(t, MsgConnect)
    /\ UNCHANGED <<embedder, llmClient, collection, catalog, uuids, call, def, raw,
                   result, before>>

\* Line 73: await this.ensureToolCreationTool().
GetOrCreateCollection_Ensure(t) ==
    /\ Running(t, "_getOrCreateCollection", "l73")
    /\ Invoke(t, "ensureToolCreationTool", "l79")
    /\ UNCHANGED <<embedder, llmClient, collection, catalog, uuids, call, def, raw,
                   result, before>>

\* ---------------------------------------------- ensureToolCreationTool
\* Line 79: const collection = await this._getOrCreateCollection().
EnsureToolCreationTool_Init(t) ==
    /\ Running(t, "ensureToolCreationTool", "l79")
    /\ Invoke(t, "_getOrCreateCollection", "l56")
    /\ UNCHANGED <<embedder, llmClient, collection, catalog, uuids, call, def, raw,
                   result, before>>

\* ------------------------------------------------------------- addTool
\* Lines 99-104 on definition d, isCore false, uuidv4 returning u.
AssignIdAndType(d, u) ==
    [d EXCEPT !.id = IF Falsy(d.id) THEN u ELSE d.id,
              !.type = IF Falsy(d.type) THEN "llm_generated" ELSE d.type]

AddTool_Assign(t) ==
    /\ Running(t, "addTool", "l99")
    /\ def' = [def EXCEPT ![t] = AssignIdAndType(@, Uuid(uuids + 1))]
    /\ uuids' = IF Falsy(def[t].id) THEN uuids + 1 ELSE uuids
    /\ stack' = Goto(t, "l106")
    /\ UNCHANGED <<embedder, llmClient, collection, catalog, exc, call, raw, result,
                   before>>

\* addTool writing through the handle without the await of line 106.
AddTool_Upsert(t) ==
    /\ Running(t, "addTool", "l106")
    /\ catalog' = {e \in catalog : e.id # def[t].id} \cup {Entry(def[t])}
    /\ stack' = [stack EXCEPT ![t] = <<>>]
    /\ result' = [result EXCEPT ![t] = [kind |-> "returned", error |-> "",
                                        value |-> <<def[t]>>]]
    /\ UNCHANGED <<embedder, llmClient, collection, uuids, exc, call, def, raw,
                   before>>

\* Line 106: const collection = await this._getOrCreateCollection().
AddTool_Init(t) ==
    /\ Running(t, "addTool", "l106")
    /\ Invoke(t, "_getOrCreateCollection", "l56")
    /\ UNCHANGED <<embedder, llmClient, collection, catalog, uuids, call, def, raw,
                   result, before>>

\* ------------------------------------------ getTool, getAvailableTools
\* Line 129: const collection = await this._getOrCreateCollection().
GetTool_Init(t) ==
    /\ Running(t, "getTool", "l129")
    /\ Invoke(t, "_getOrCreateCollection", "l56")
    /\ UNCHANGED <<embedder, llmClient, collection, catalog, uuids, call, def, raw,
                   result, before>>

\* Line 144: const collection = await this._getOrCreateCollection().
GetAvailableTools_Init(t) ==
    /\ Running(t, "getAvailableTools", "l144")
    /\ Invoke(t, "_getOrCreateCollection", "l56")
    /\ UNCHANGED <<embedder, llmClient, collection, catalog, uuids, call, def, raw,
                   result, before>>

\* ------------------------------------------------------- Agent.process
\* index.js line 32: process(userInput) asks for the tools relevant to the input,
\* five at most, before its try block.
AgentMaxResults == 5

CallProcess(t, userInput) ==
    /\ Issue(t, [NoCall EXCEPT !.op = "process", !.context = userInput,
                               !.maxResults = AgentMaxResults])
    /\ stack' = [stack EXCEPT ![t] = <<Frame("process", "l32")>>]
    /\ UNCHANGED <<embedder, llmClient, collection, catalog, uuids, exc, def, raw>>

\* index.js line 32: await this.toolManager.getAvailableTools(userInput, 5).
Process_GetAvailableTools(t) ==
    /\ Running(t, "process", "l32")
    /\ Invoke(t, "getAvailableTools", "l144")
    /\ UNCHANGED <<embedder, llmClient, collection, catalog, uuids, call, def, raw,
                   result, before>>

\* ------------------------------------------------- executeToolCreation
\* Lines 201-203 and 241: without a completion client throw, before the try;
\* else send the prompt to the completion backend.
ExecuteToolCreation_Check(t) ==
    /\ Running(t, "executeToolCreation", "l201")
    /\ \/ /\ ~llmClient
          /\ Throw(t, MsgNoLlmClient)
       \/ /\ llmClient
          /\ stack' = Goto(t, "l241")
          /\ exc' = exc
    /\ UNCHANGED <<embedder, llmClient, collection, catalog, uuids, call, def, raw,
                   result, before>>

\* Lines 241-282: the completion backend answers r.  A response that fails
\* extraction, parsing or validation throws inside the try and the catch returns
\* the error result; one that passes goes on to line 282.
LlmRespond(t, r) ==
    /\ Running(t, "executeToolCreation", "l241")
    /\ raw' = [raw EXCEPT ![t] = r]
    /\ \/ /\ Synthesize(r).err # ""
          /\ stack' = [stack EXCEPT ![t] = <<>>]
          /\ result' = [result EXCEPT ![t] = CreationFailure(Synthesize(r).err)]
          /\ def' = def
       \/ /\ Synthesize(r).err = ""
          /\ Synthesize(r).obj.id = Undefined => uuids < MaxUuid
          /\ stack' = Goto(t, "l282")
          /\ def' = [def EXCEPT ![t] = Synthesize(r).obj]
          /\ result' = result
    /\ UNCHANGED <<embedder, llmClient, collection, catalog, uuids, exc, call, before>>

\* The completion call failing and the method starting over with a new call.
LlmFailRetried(t) ==
    /\ Running(t, "executeToolCreation", "l241")
    /\ stack' = Goto(t, "l201")
    /\ UNCHANGED <<embedder, llmClient, collection, catalog, uuids, exc, call, def,
                   raw, result, before>>

\* Line 241 rejects: the completion backend fails, and the catch returns the error.
LlmFail(t) ==
    /\ Running(t, "executeToolCreation", "l241")
    /\ stack' = [stack EXCEPT ![t] = <<>>]
    /\ result' = [result EXCEPT ![t] = CreationFailure(MsgLlmFailed)]
    /\ UNCHANGED <<embedder, llmClient, collection, catalog, uuids, exc, call, def,
                   raw, before>>

\* Line 282: const addedTool = await this.addTool(generatedToolDef).
ExecuteToolCreation_AddTool(t) ==
    /\ Running(t, "executeToolCreation", "l282")
    /\ Invoke(t, "addTool", "l99")
    /\ UNCHANGED <<embedder, llmClient, collection, catalog, uuids, call, def, raw,
                   result, before>>

\* ----------------------------------------------------------- rejection
\* Every awaiting frame catching the error and logging it, as the catch of
\* lines 86-93 does, and the call going on to report success.
RejectSwallowed(t) ==
    /\ exc[t] # ""
    /\ stack' = [stack EXCEPT ![t] = <<>>]
    /\ exc' = [exc EXCEPT ![t] = ""]
    /\ result' = [result EXCEPT ![t] = [kind |-> "returned", error |-> "",
                                        value |-> <<>>]]
    /\ UNCHANGED <<embedder, llmClient, collection, catalog, uuids, call, def, raw,
                   before>>

\* The frame awaiting a rejected call is resumed with the error.  Line 282 is
\* inside the try of executeToolCreation, whose catch returns the error result;
\* the awaits of lines 73, 79, 106, 129 and 144 are inside no try, so the frame
\* rejects in turn.  With no frame left the call of task t has thrown.
Reject(t) ==
    /\ exc[t] # ""
    /\ \/ /\ stack[t] # <<>>
          /\ Top(t) = Frame("executeToolCreation", "l282")
          /\ stack' = [stack EXCEPT ![t] = <<>>]
          /\ result' = [result EXCEPT ![t] = CreationFailure(exc[t])]
          /\ exc' = [exc EXCEPT ![t] = ""]
       \/ /\ stack[t] # <<>>
          /\ Top(t) # Frame("executeToolCreation", "l282")
          /\ stack' = [stack EXCEPT ![t] = SubSeq(@, 1, Len(@) - 1)]
          /\ UNCHANGED <<exc, result>>
       \/ /\ stack[t] = <<>>
          /\ result' = [result EXCEPT ![t] = Thrown(exc[t])]
          /\ exc' = [exc EXCEPT ![t] = ""]
          /\ stack' = stack
    /\ UNCHANGED <<embedder, llmClient, collection, catalog, uuids, call, def, raw,
                   before>>

\* The caller of task t takes the outcome of its call and is free to call again.
Settle(t) ==
    /\ Finished(t)
    /\ call' = [call EXCEPT ![t] = NoCall]
    /\ def' = [def EXCEPT ![t] = NoDef]
    /\ raw' = [raw EXCEPT ![t] = <<>>]
    /\ result' = [result EXCEPT ![t] = NoResult]
    /\ before' = [before EXCEPT ![t] = {}]
    /\ UNCHANGED <<embedder, llmClient, collection, catalog, uuids, stack, exc>>

\* ------------------------------------------------------------ the system
Contexts == {"", "weather in Paris"}
ToolIds == {TOOL_CREATION_TOOL_ID, "tool-a", "tool-b"}
CallerDefs == {WeatherTool, StoredTool, TOOL_CREATION_TOOL_DEF}
UserInputs == Contexts \ {""}

Next ==
    \E t \in Callers :
        \/ CallGetOrCreateCollection(t)
        \/ CallEnsureToolCreationTool(t)
        \/ \E d \in CallerDefs : CallAddTool(t, d)
        \/ \E i \in ToolIds : CallGetTool(t, i)
        \/ \E ctx \in Contexts, n \in 0..MaxN : CallGetAvailableTools(t, ctx, n)
        \/ CallExecuteToolCreation(t)
        \/ \E userInput \in UserInputs : CallProcess(t, userInput)
        \/ Process_GetAvailableTools(t)
        \/ GetOrCreateCollection_Check(t)
        \/ ConnectOk(t)
        \/ ConnectFail(t)
        \/ GetOrCreateCollection_Ensure(t)
        \/ EnsureToolCreationTool_Init(t)
        \/ AddTool_Assign(t)
        \/ AddTool_Init(t)
        \/ GetTool_Init(t)
        \/ GetAvailableTools_Init(t)
        \/ ExecuteToolCreation_Check(t)
        \/ \E r \in Responses : LlmRespond(t, r)
        \/ LlmFail(t)
        \/ ExecuteToolCreation_AddTool(t)
        \/ Reject(t)
        \/ Settle(t)

Spec == Init /\ [][Next]_vars

\* ------------------------------------------------- overlapping callers
\* Two calls in flight on one manager: each task issues initializations and
\* addTool calls, and their steps interleave at the awaits.
RevisedTool == [StoredTool EXCEPT !.description = "Retrieves the weather forecast"]
OverlapDefs == {WeatherTool, StoredTool, RevisedTool}

NextOverlap ==
    \E t \in Tasks :
        \/ CallGetOrCreateCollection(t)
        \/ \E d \in OverlapDefs : CallAddTool(t, d)
        \/ GetOrCreateCollection_Check(t)
        \/ ConnectOk(t)
        \/ ConnectFail(t)
        \/ GetOrCreateCollection_Ensure(t)
        \/ EnsureToolCreationTool_Init(t)
        \/ AddTool_Assign(t)
        \/ AddTool_Init(t)
        \/ Reject(t)
        \/ Settle(t)

SpecOverlap == Init /\ [][NextOverlap]_vars

\* ------------------------------------------------------------- claims
Done(t, o) == call[t].op = o /\ Finished(t)

\* The call of task t was refused by the store: no embedding function, or no
\* connection.
Refused(t) ==
    /\ result[t].kind = "thrown"
    /\ result[t].error \in {MsgNoEmbedder, MsgConnect}

Returned(t) == result[t].kind = "returned"

\* The list l holds the meta-tool first and once, and at most n further entries,
\* their ids pairwise distinct.
MetaToolFirst(l, n) ==
    /\ Len(l) >= 1
    /\ l[1].id = TOOL_CREATION_TOOL_ID
    /\ \A i \in 2..Len(l) : l[i].id # TOOL_CREATION_TOOL_ID
    /\ \A i, j \in 1..Len(l) : i # j => l[i].id # l[j].id
    /\ Len(l) <= n + 1

C3_MutualCallsEnd ==
    \A t \in Tasks : exc[t] # MsgRangeError

\* C4 as claimed: executeToolCreation never raises; whatever fails, it returns a
\* result with a non-empty error string.
C4_NeverRaises ==
    \A t \in Tasks :
        Done(t, "executeToolCreation") =>
            Returned(t) /\ (result[t].value = <<>> => result[t].error # "")

\* C4 as amended: executeToolCreation raises only when no completion client is
\* configured; with a client, every failure of its chain returns a result with a
\* non-empty error string.
C4_RaisesOnlyWithoutClient ==
    \A t \in Tasks :
        Done(t, "executeToolCreation") =>
            IF llmClient
            THEN Returned(t) /\ (result[t].value = <<>> => result[t].error # "")
            ELSE result[t] = Thrown(MsgNoLlmClient)

\* A call whose persisting step failed on the connection has returned the error.
C4_Witness ==
    \E t \in Tasks :
        /\ Done(t, "executeToolCreation")
        /\ Returned(t)
        /\ result[t].error = "Failed to create tool: " \o MsgConnect

\* The completion response of task t passed extraction, parsing and validation.
ValidResponse(t) == raw[t] # <<>> /\ Synthesize(raw[t]).err = ""

LacksFencedJson(t) ==
    /\ llmClient
    /\ result[t].error # "Failed to create tool: " \o MsgLlmFailed
    /\ Opener(raw[t]) = 0

LacksRequired(o) ==
    \/ o.name = Undefined
    \/ o.description = Undefined
    \/ o.parameters.kind # "object"
    \/ o.parameters.type = Undefined
    \/ o.parameters.properties = Undefined

\* The completion response of task t parsed to an object that lacks a required
\* field.
InvalidObject(t) ==
    /\ Parses(ExtractJson(raw[t]))
    /\ ExtractJson(raw[t])[1].tok = "object"
    /\ LacksRequired(ExtractJson(raw[t])[1].val)

\* C7: an executeToolCreation call whose parsed object lacks name, description or
\* parameters, or whose parameters is not an object with type and properties,
\* returns the validation error, never hands the object to addTool (which alone
\* upserts), and leaves the catalog as it was.
C7_InvalidObjectRejected ==
    \A t \in Tasks :
        Done(t, "executeToolCreation") /\ InvalidObject(t) =>
            /\ Returned(t)
            /\ result[t].error \in {"Failed to create tool: " \o MsgMissingFields,
                                    "Failed to create tool: " \o MsgBadParameters}
            /\ def[t] = NoDef
            /\ catalog = before[t]

\* An object without parameters.properties has been rejected.
C7_Witness ==
    \E t \in Tasks :
        /\ Done(t, "executeToolCreation")
        /\ raw[t] = <<Tok("fence_json"),
                      Obj([WeatherTool EXCEPT
                             !.parameters = [SchemaParameters EXCEPT
                                               !.properties = Undefined]]),
                      Tok("fence")>>
        /\ result[t].error = "Failed to create tool: " \o MsgBadParameters

\* C8: without an embedding function getAvailableTools is not blocked: it skips
\* the relevance query and returns a list holding only the meta-tool.
C8_NoEmbedderNotBlocked ==
    \A t \in Tasks :
        Done(t, "getAvailableTools") /\ ~embedder =>
            /\ Returned(t)
            /\ Len(result[t].value) = 1
            /\ result[t].value[1].id = TOOL_CREATION_TOOL_ID

\* C9: getAvailableTools with an empty context, on a store that did not refuse
\* the call, returns exactly one entry, the meta-tool.
C9_EmptyContextOnlyMetaTool ==
    \A t \in Tasks :
        Done(t, "getAvailableTools") /\ call[t].context = "" /\ ~Refused(t) =>
            /\ Returned(t)
            /\ Len(result[t].value) = 1
            /\ result[t].value[1] \in {TOOL_CREATION_TOOL_DEF}
                                      \cup {e.meta : e \in catalog}
            /\ result[t].value[1].id = TOOL_CREATION_TOOL_ID

\* C12: getTool never throws: every completed getTool(id) call has returned, the
\* stored definition when the id is in the catalog and null (no value) when it is
\* not or when the backend failed, the connection included.
C12_GetToolNeverThrows ==
    \A t \in Tasks :
        Done(t, "getTool") =>
            /\ Returned(t)
            /\ result[t].error = ""
            /\ \/ result[t].value = <<>>
               \/ /\ Len(result[t].value) = 1
                  /\ Entry(result[t].value[1]) \in catalog
                  /\ result[t].value[1].id = call[t].id

\* The metadata collection.get returns for id i: what getTool(i) reads back.
ReadBack(i) == {e.meta : e \in {s \in catalog : s.id = i}}

C14_EnsureLeavesOneMetaTool ==
    \A t \in Tasks :
        Done(t, "ensureToolCreationTool") /\ ~Refused(t) =>
            /\ Cardinality({e \in catalog : e.id = TOOL_CREATION_TOOL_ID}) = 1
            /\ {e \in catalog : e.id # TOOL_CREATION_TOOL_ID}
                   = {e \in before[t] : e.id # TOOL_CREATION_TOOL_ID}

\* C15: when two addTool calls that carried the same explicit id, overlapping or
\* not, have both completed on a store that refused neither, the catalog holds
\* under that id exactly one entry, and it is the whole entry of one of the two
\* calls: the id is not absent, not duplicated, and no field comes from elsewhere.
C15_LastWriteWins ==
    \A t, u \in Tasks :
        /\ t # u
        /\ Done(t, "addTool") /\ Done(u, "addTool")
        /\ def[t].id = def[u].id
        /\ ~Refused(t) /\ ~Refused(u)
        => /\ Cardinality({e \in catalog : e.id = def[t].id}) = 1
           /\ {e \in catalog : e.id = def[t].id}
                  \subseteq {Entry(def[t]), Entry(def[u])}

StoreCall(t) ==
    call[t].op \in {"_getOrCreateCollection", "ensureToolCreationTool", "addTool"}

HandedOut == {Uuid(k) : k \in 1..uuids}

\* Task t has completed an addTool call, on a store that did not refuse it, whose
\* definition came without an id.
AddedWithoutId(t) ==
    Done(t, "addTool") /\ ~Refused(t) /\ def[t].id \in HandedOut

\* C18: a completed addTool call whose definition came without an id gave it a
\* non-empty id that no catalog entry had, and the catalog holds the definition
\* under it; two such calls gave two different ids, so two entries.
C18_FreshIds ==
    /\ \A t \in Tasks :
           AddedWithoutId(t) =>
               /\ ~Falsy(def[t].id)
               /\ def[t].id \notin {e.id : e \in before[t]}
               /\ Entry(def[t]) \in catalog
    /\ \A t, u \in Tasks :
           t # u /\ AddedWithoutId(t) /\ AddedWithoutId(u) =>
               /\ def[t].id # def[u].id
               /\ Cardinality({e \in catalog : e.id \in {def[t].id, def[u].id}}) = 2

\* The part of C18 about the ids alone: once lines 99-104 have run, a definition
\* that came without an id carries a fresh non-empty one, different from any
\* other call's, and a definition that came with an id has kept it.
C18_IdsAssigned ==
    \A t \in Tasks :
        call[t].op = "addTool" /\ def[t].id \in HandedOut =>
            /\ ~Falsy(def[t].id)
            /\ def[t].id \notin StoredIds
            /\ \A u \in Tasks : u # t => def[u].id # def[t].id

\* How far the executeToolCreation call of task t has come: 0 before the
\* completion call, 1 with the completion call in flight, 2 persisting (extraction,
\* parsing and validation done), 3 ended.
Stage(t) ==
    IF stack[t] = <<>> THEN 3
    ELSE CASE stack[t][1].pc = "l201" -> 0
           [] stack[t][1].pc = "l241" -> 1
           [] OTHER -> 2

\* The activations of addTool on the stack of task t.
AddToolFrames(t) == {i \in 1..Len(stack[t]) : stack[t][i].fn = "addTool"}

\* C19: within one executeToolCreation call the stages follow in order and none
\* is taken twice: the completion call is made once and never again, its response
\* is taken once, and addTool, which alone upserts, is invoked at most once and
\* only with the object that this call's response gave after passing extraction,
\* parsing and validation.
C19_StepsInOrder ==
    /\ [](\A t \in Tasks :
             call[t].op = "executeToolCreation" =>
                 /\ Cardinality(AddToolFrames(t)) <= 1
                 /\ Stage(t) = 2 => ValidResponse(t)
                 /\ AddToolFrames(t) # {} =>
                        /\ Stage(t) = 2
                        /\ def[t] \in {Synthesize(raw[t]).obj,
                                       AssignIdAndType(Synthesize(raw[t]).obj,
                                                       def[t].id)})
    /\ [][\A t \in Tasks :
             call[t].op = "executeToolCreation" /\ call'[t] = call[t] =>
                 /\ Stage(t)' >= Stage(t)
                 /\ Stage(t)' = 1 => Stage(t) \in {0, 1}
                 /\ raw'[t] # raw[t] => Stage(t) = 1 /\ Stage(t)' > 1
                 /\ AddToolFrames(t) = {} /\ AddToolFrames(t)' # {} =>
                        Stage(t) = 2 /\ Len(stack[t]) = 1]_vars

\* A validated object is being persisted: addTool runs under executeToolCreation.
C19_Witness ==
    \E t \in Tasks :
        /\ call[t].op = "executeToolCreation"
        /\ ValidResponse(t)
        /\ AddToolFrames(t) = {2}

\* Task t awaits the backend's getOrCreateCollection (line 61).
Connecting(t) ==
    stack[t] # <<>> /\ Top(t) = Frame("_getOrCreateCollection", "l61")

\* C20 as claimed: over any interleaving the backend's getOrCreateCollection
\* succeeds at most once, so that a handle once set is never replaced.
C20_ConnectsAtMostOnce == collection <= 1

\* C20 as amended: once the handle is set no call turns to the backend for the
\* collection any more; only a call that was already awaiting the backend when
\* the handle was set may still succeed and replace it, so the backend succeeds at
\* most once per call that started before the first connection completed.
C20_NoConnectOnceSet ==
    /\ [](collection # 0 =>
             collection + Cardinality({t \in Tasks : Connecting(t)})
                 <= Cardinality(Tasks))
    /\ [][collection # 0 =>
             /\ \A t \in Tasks : Connecting(t)' => Connecting(t)
             /\ collection' # collection =>
                    \E t \in Tasks : Connecting(t) /\ ~Connecting(t)']_vars

\* Two calls connected one after the other, and a call issued after that goes on
\* with the cached handle.
C20_Witness ==
    /\ collection = 2
    /\ \E t \in Tasks :
           /\ call[t].op = "_getOrCreateCollection"
           /\ stack[t] = <<Frame("_getOrCreateCollection", "l73")>>
           /\ before[t] = catalog

\* The strings Agent.process returns when a turn fails: the tool-creation message
\* carrying the reason (index.js line 76) and the generic apology (line 99).
IsFailureMessage(r) ==
    /\ r.kind = "returned"
    /\ Len(r.value) = 1
    /\ \/ r.value[1] = "Sorry, I encountered an error processing your request."
       \/ \E m \in {MsgNoEmbedder, MsgConnect, MsgRangeError} :
              r.value[1] = "Sorry, I encountered an error trying to create that tool: "
                               \o "Failed to create tool: " \o m

\* C23: Agent.process never throws or rejects: every completed call has returned
\* a string, and a turn in which the tool retrieval failed has returned a failure
\* message.
C23_ProcessNeverRejects ==
    \A t \in Tasks :
        Done(t, "process") =>
            /\ Returned(t)
            /\ IsFailureMessage(result[t])

\* Task t runs one of the read operations.
ReadCall(t) == call[t].op \in {"getTool", "getAvailableTools"}

\* C24: no step of any operation removes a stored id, and a step of a getTool or
\* getAvailableTools call leaves every entry in place and adds at most the
\* meta-tool's entry, and that only when no entry had its id.
C24_NothingRemoved ==
    [][/\ StoredIds \subseteq StoredIds'
       /\ \A t \in Tasks :
              ReadCall(t) /\ call'[t] = call[t] =>
                  /\ catalog \subseteq catalog'
                  /\ \A e \in catalog' \ catalog :
                         /\ e.id = TOOL_CREATION_TOOL_ID
                         /\ TOOL_CREATION_TOOL_ID \notin StoredIds]_vars

\* A getAvailableTools call that connected to a store holding a generated tool has
\* completed, and the tool is still stored.
C24_Witness ==
    \E t \in Tasks :
        /\ Done(t, "getAvailableTools")
        /\ collection # 0
        /\ Entry(StoredTool) \in before[t]
        /\ Entry(StoredTool) \in catalog

====
